---------------------------- MODULE Spec2Model ----------------------------
(***************************************************************************)
(* Bank cashier simulation (src/src/case_study/app.py).                    *)
(*                                                                         *)
(* run_simulation() seeds the random generator, creates a discrete-event   *)
(* environment, starts the arrival generator setup() and runs the event    *)
(* loop until no event is left.  setup() creates a Resource with           *)
(* `cashiers` slots and spawns one customer() process per loop iteration,  *)
(* each followed by an exponential inter-arrival timeout.  customer()      *)
(* requests a cashier, records its wait, draws a uniform service duration, *)
(* holds the cashier for that long and releases it.                        *)
(*                                                                         *)
(* The event loop, the processes and the Resource are the library objects  *)
(* app.py calls (Environment, Process, Timeout, Resource.request/release). *)
(* They are modelled by what those calls do: every event is an entry       *)
(* (time, priority, eid) of the environment's queue, dispatched in that    *)
(* order; a process runs from one yield to the next when the event it      *)
(* waits for is dispatched.                                                *)
(*                                                                         *)
(* Time is counted in integer units.  random.seed(RANDOM_SEED) fixes the   *)
(* random stream of a run: `stream` holds the samples the expovariate and  *)
(* the uniform calls have received so far, and a run started again with    *)
(* the same seed receives the same samples.                                *)
(***************************************************************************)
EXTENDS Integers, Sequences, FiniteSets

VARIABLES
  cfg,            \* the parameters: customers, interval, service_time, cashiers
  stream,         \* the seeded random stream: the samples drawn from it so far
  now,            \* env.now
  queue,          \* the environment's event queue
  eid,            \* the environment's event id counter
  pc,             \* position of each process: 0 is setup, c >= 1 is "Customer c"
  i,              \* setup's loop variable
  arrive,         \* customer's local `arrive`
  leave,          \* history: the time each customer left its with block
  users,          \* bank.users: the requests holding a cashier, in grant order
  put_queue,      \* bank.put_queue: the pending requests
  usage_since,    \* request.usage_since: the time each request was granted
  wait_times,     \* run_simulation's wait_times list
  service_times,  \* run_simulation's service_times list
  busy_time,      \* busy_time[0]
  total_time,     \* run_simulation's total_time
  utilization,    \* run_simulation's utilization, as the fraction num / den
  phase,          \* where run_simulation is: "run", "done" or "failed"
  error,          \* the exception that ended run_simulation, "" when none
  requested,      \* history: the customers in the order they called bank.request()
  granted,        \* history: the customers in the order their request succeeded
  run_no,         \* which call of run_simulation() this is
  first_run       \* the results of the first call, once a second one started

vars == << cfg, stream, now, queue, eid, pc, i, arrive, leave, users, put_queue,
           usage_since, wait_times, service_times, busy_time, total_time,
           utilization, phase, error, requested, granted, run_no, first_run >>

-----------------------------------------------------------------------------
(* Parameters (app.py lines 10-14) and the bounds of the model.            *)

INTERVAL == 5
CASHIERS == 2
SERVICE_TIME == << 3, 7 >>

\* CUSTOMERS is 50 in app.py; the model runs every count up to MaxCustomers.
MaxCustomers == 3

\* Samples of the standard exponential variate -ln(1 - random()), in fifths.
ExpoSamples == {0, 1, 2, 9}
\* Samples of random(), in halves.
UnitSamples == {0, 1}

Procs == 0 .. MaxCustomers
Customers == 1 .. MaxCustomers

URGENT == 0
NORMAL == 1

\* A timeout scheduled at its delay, the current time not added.
TimeoutAtDelay(t, delay) == delay

\* env.timeout(delay) at time t fires at t + delay.
TimeoutAt(t, delay) == t + delay

\* The rate passed as `interval` instead of 1.0 / interval: x / interval.
ExpovariateOfInterval(interval, x) == (x \div interval) \div 5

\* random.expovariate(1.0 / interval) for the sample x: x / lambd = x * interval.
Expovariate(interval, x) == (x * interval) \div 5

\* random.uniform(a, b) for the sample u of random(): a + (b - a) * u.
Uniform(a, b, u) == a + ((b - a) * u) \div 2

-----------------------------------------------------------------------------
(* The event queue.                                                        *)

Event(t, prio, id, type, proc, exc) ==
  [time |-> t, priority |-> prio, eid |-> id, type |-> type, proc |-> proc,
   exc |-> exc]

\* A queue ordered by scheduling order alone, whatever the events' times.
BeforeByEid(a, b) == a.eid < b.eid

\* A queue that ignores the priority: time, then scheduling order.
BeforeInSchedulingOrder(a, b) ==
  \/ a.time < b.time
  \/ a.time = b.time /\ a.eid < b.eid

\* The heap order of the queue's entries (time, priority, eid).
Before(a, b) ==
  \/ a.time < b.time
  \/ a.time = b.time /\ a.priority < b.priority
  \/ a.time = b.time /\ a.priority = b.priority /\ a.eid < b.eid

\* A queue keyed by time alone: any entry of the earliest time may be popped.
EarliestAtTime(q) == {e \in q : \A f \in q : e.time <= f.time}

\* The entries env.step() may pop next.
Earliest(q) == {e \in q : \A f \in q : f = e \/ Before(e, f)}

\* A removal that leaves the sequence as it is.
RemoveNothing(s, x) == s

Remove(s, x) == SelectSeq(s, LAMBDA y : y # x)

InSeq(s, x) == \E k \in 1 .. Len(s) : s[k] = x

-----------------------------------------------------------------------------
(* The Resource.                                                           *)

\* An off-by-one capacity test.
CanGrantOffByOne(u) == Len(u) <= cfg.cashiers

\* Resource._do_put: a request succeeds while fewer than capacity users hold.
\* A cashier kept in reserve: the last free one is never granted.
CanGrantOneLess(u) == Len(u) + 1 < cfg.cashiers

CanGrant(u) == Len(u) < cfg.cashiers

\* A LIFO wait queue: the latest request is looked at first.
NextRequestLast(pq) == pq[Len(pq)]

\* BaseResource._trigger_put looks at the head of put_queue only.
NextRequest(pq) == Head(pq)

\* _trigger_put not called: no request is ever granted.
GrantsNothing(pq, u) == {}

\* The requests _trigger_put grants: the head when a cashier is free.
Grants(pq, u) == IF pq # << >> /\ CanGrant(u) THEN {NextRequest(pq)} ELSE {}

\* The operands of the subtraction exchanged.
WaitReversed(t, arrived) == arrived - t

\* The grant time recorded as the wait, the arrival time not subtracted.
WaitSinceStart(t, arrived) == t

\* The wait a customer records when it is resumed with its request.
Wait(t, arrived) == t - arrived

\* The service duration counted twice.
AddBusyTwice(busy, d) == busy + d + d

\* The service duration not added to the busy time.
AddBusyNothing(busy, d) == busy

\* busy_time[0] += service_duration
AddBusy(busy, d) == busy + d

-----------------------------------------------------------------------------
(* The state run_simulation() builds before env.run() (lines 51-58).       *)

NoResults == [wait_times |-> << >>, total_time |-> 0]

\* A fresh environment with setup's Initialize event scheduled (line 58).
Fresh ==
  /\ now = 0
  /\ queue = {Event(0, URGENT, 0, "Initialize", 0, "")}
  /\ eid = 1
  /\ pc = [p \in Procs |-> IF p = 0 THEN "start" ELSE "none"]
  /\ i = 0
  /\ arrive = [c \in Customers |-> 0]
  /\ leave = [c \in Customers |-> 0]
  /\ users = << >>
  /\ put_queue = << >>
  /\ usage_since = [c \in Customers |-> 0]
  /\ wait_times = << >>
  /\ service_times = << >>
  /\ busy_time = 0
  /\ total_time = 0
  /\ utilization = [num |-> 0, den |-> 0]
  /\ phase = "run"
  /\ error = ""
  /\ requested = << >>
  /\ granted = << >>

\* No sample has been drawn yet.
NoSamples == [expovariate |-> << >>, uniform |-> << >>]

\* The k-th sample of a stream: the one already drawn, or else any sample.
Draws(drawn, k, samples) == IF k <= Len(drawn) THEN {drawn[k]} ELSE samples

\* The stream after its k-th sample x was drawn.
Drawn(drawn, k, x) == IF k <= Len(drawn) THEN drawn ELSE Append(drawn, x)

\* Valid parameters: app.py's, for every count and every capacity >= 1 modelled.
Init ==
  /\ cfg \in [customers : 1 .. MaxCustomers, interval : {INTERVAL},
              service_time : {SERVICE_TIME}, cashiers : 1 .. CASHIERS]
  /\ stream = NoSamples
  /\ run_no = 1
  /\ first_run = NoResults
  /\ Fresh

-----------------------------------------------------------------------------
(* setup (lines 39-44), from the top of loop iteration k at time t, with   *)
(* the next free event id `id` and x the sample expovariate draws: the     *)
(* events it schedules and where it stops.                                 *)

SetupLoop(k, id, t, x) ==
  IF k >= cfg.customers
  THEN \* the loop is over: the generator returns, the process event succeeds
       [events |-> {Event(t, NORMAL, id, "Process", 0, "")},
        spawn |-> {}, pc |-> "done", i |-> i, eid |-> id + 1]
  ELSE LET init == Event(t, URGENT, id, "Initialize", k + 1, "")
           delay == Expovariate(cfg.interval, x)
           exc == IF cfg.interval = 0 THEN "ZeroDivisionError"
                  ELSE IF delay < 0 THEN "ValueError" ELSE ""
       IN  IF exc # ""
           THEN \* 1.0 / interval or env.timeout raises: the process fails
                [events |-> {init, Event(t, NORMAL, id + 1, "Process", 0, exc)},
                 spawn |-> {k + 1}, pc |-> "failed", i |-> k, eid |-> id + 2]
           ELSE [events |-> {init, Event(TimeoutAt(t, delay), NORMAL, id + 1,
                              "Timeout", 0, "")},
                 spawn |-> {k + 1}, pc |-> "timeout", i |-> k, eid |-> id + 2]

\* setup runs from k and suspends or ends; ev is the event just dispatched.
\* Iteration k draws the (k+1)-th expovariate sample, unless the loop is over
\* or 1.0 / interval raised before the call.
SetupRuns(ev, k) ==
  LET draws == k < cfg.customers /\ cfg.interval # 0
  IN  \E x \in (IF draws THEN Draws(stream.expovariate, k + 1, ExpoSamples) ELSE {0}) :
        LET r == SetupLoop(k, eid, ev.time, x)
        IN  /\ now' = ev.time
            /\ queue' = (queue \ {ev}) \cup r.events
            /\ eid' = r.eid
            /\ i' = r.i
            /\ pc' = [p \in Procs |-> IF p = 0 THEN r.pc
                                      ELSE IF p \in r.spawn THEN "start" ELSE pc[p]]
            /\ stream' = IF draws
                         THEN [stream EXCEPT !.expovariate = Drawn(@, k + 1, x)]
                         ELSE stream
            /\ UNCHANGED << cfg, arrive, leave, users, put_queue, usage_since,
                            wait_times, service_times, busy_time, total_time,
                            utilization, phase, error, requested, granted,
                            run_no, first_run >>

\* setup's Initialize event: the generator starts; simpy.Resource(env, cashiers)
\* raises ValueError when the capacity is not positive (line 41).
SetupStart ==
  /\ phase = "run"
  /\ \E ev \in Earliest(queue) :
       /\ ev.type = "Initialize" /\ ev.proc = 0
       /\ IF cfg.cashiers <= 0
          THEN /\ now' = ev.time
               /\ queue' = (queue \ {ev})
                             \cup {Event(ev.time, NORMAL, eid, "Process", 0, "ValueError")}
               /\ eid' = eid + 1
               /\ pc' = [pc EXCEPT ![0] = "failed"]
               /\ UNCHANGED << cfg, stream, i, arrive, leave, users, put_queue,
                               usage_since, wait_times, service_times, busy_time,
                               total_time, utilization, phase, error, requested,
                               granted, run_no, first_run >>
          ELSE SetupRuns(ev, 0)

\* setup's inter-arrival timeout fires (line 44): the next loop iteration.
SetupResume ==
  /\ phase = "run"
  /\ \E ev \in Earliest(queue) :
       /\ ev.type = "Timeout" /\ ev.proc = 0
       /\ SetupRuns(ev, i + 1)

-----------------------------------------------------------------------------
(* customer (lines 19-33).                                                 *)

\* A customer's Initialize event: it notes its arrival and calls
\* bank.request() (lines 21-25).  The request joins put_queue and
\* _trigger_put grants the head of put_queue if a cashier is free; the
\* customer then waits for its request event.
CustomerArrives ==
  /\ phase = "run"
  /\ \E ev \in Earliest(queue) :
       /\ ev.type = "Initialize" /\ ev.proc # 0
       /\ LET c == ev.proc
              pq == Append(put_queue, c)
              g == Grants(pq, users)
          IN  /\ now' = ev.time
              /\ arrive' = [arrive EXCEPT ![c] = ev.time]
              /\ requested' = Append(requested, c)
              /\ pc' = [pc EXCEPT ![c] = "request"]
              /\ IF g = {}
                 THEN /\ put_queue' = pq
                      /\ queue' = queue \ {ev}
                      /\ UNCHANGED << users, usage_since, granted, eid >>
                 ELSE \E h \in g :
                      /\ put_queue' = Remove(pq, h)
                      /\ users' = Append(users, h)
                      /\ usage_since' = [usage_since EXCEPT ![h] = ev.time]
                      /\ granted' = Append(granted, h)
                      /\ queue' = (queue \ {ev})
                                    \cup {Event(ev.time, NORMAL, eid, "Request", h, "")}
                      /\ eid' = eid + 1
       /\ UNCHANGED << cfg, stream, i, leave, wait_times, service_times,
                       busy_time, total_time, utilization, phase, error,
                       run_no, first_run >>

\* A release that leaves the request among the users.
DoReleaseNothing(u, c) == u

\* A release that frees the oldest user, whichever request is released.
DoReleaseOldest(u, c) == Tail(u)

\* bank.release(req) as Request.__exit__ calls it: the request leaves users.
DoRelease(u, c) == Remove(u, c)

\* A customer's request event: it is resumed holding a cashier, records its
\* wait, draws and records its service duration and waits for the service
\* timeout (lines 26-33).  A negative duration makes env.timeout raise: the
\* with block releases the cashier and the process fails.
CustomerServed ==
  /\ phase = "run"
  /\ \E ev \in Earliest(queue) :
       /\ ev.type = "Request"
       /\ \E u \in Draws(stream.uniform, Len(service_times) + 1, UnitSamples) :
          LET c == ev.proc
              wait == Wait(ev.time, arrive[c])
              service_duration ==
                Uniform(cfg.service_time[1], cfg.service_time[2], u)
          IN  /\ now' = ev.time
              /\ stream' = [stream EXCEPT
                              !.uniform = Drawn(@, Len(service_times) + 1, u)]
              /\ wait_times' = Append(wait_times, wait)
              /\ service_times' = Append(service_times, service_duration)
              /\ busy_time' = AddBusy(busy_time, service_duration)
              /\ IF service_duration < 0
                 THEN /\ users' = DoRelease(users, c)
                      /\ leave' = [leave EXCEPT ![c] = ev.time]
                      /\ pc' = [pc EXCEPT ![c] = "failed"]
                      /\ queue' = (queue \ {ev}) \cup
                           {Event(ev.time, NORMAL, eid, "Release", c, ""),
                            Event(ev.time, NORMAL, eid + 1, "Process", c, "ValueError")}
                      /\ eid' = eid + 2
                 ELSE /\ pc' = [pc EXCEPT ![c] = "service"]
                      /\ queue' = (queue \ {ev}) \cup
                           {Event(TimeoutAt(ev.time, service_duration), NORMAL,
                                  eid, "Timeout", c, "")}
                      /\ eid' = eid + 1
                      /\ UNCHANGED << users, leave >>
       /\ UNCHANGED << cfg, i, arrive, put_queue, usage_since,
                       total_time, utilization, phase, error, requested,
                       granted, run_no, first_run >>

\* A service timeout that credits the busy time when the customer leaves, on
\* top of the credit made when it was served.
CustomerLeavesCounted ==
  /\ phase = "run"
  /\ \E ev \in Earliest(queue) :
       /\ ev.type = "Timeout" /\ ev.proc # 0
       /\ LET c == ev.proc
          IN  /\ now' = ev.time
              /\ users' = DoRelease(users, c)
              /\ leave' = [leave EXCEPT ![c] = ev.time]
              /\ pc' = [pc EXCEPT ![c] = "done"]
              /\ busy_time' = AddBusy(busy_time, ev.time - usage_since[c])
              /\ queue' = (queue \ {ev}) \cup
                   {Event(ev.time, NORMAL, eid, "Release", c, ""),
                    Event(ev.time, NORMAL, eid + 1, "Process", c, "")}
              /\ eid' = eid + 2
       /\ UNCHANGED << cfg, stream, i, arrive, put_queue, usage_since,
                       wait_times, service_times, total_time,
                       utilization, phase, error, requested, granted, run_no,
                       first_run >>

\* A customer's service timeout: the with block ends, the cashier is
\* released (the release event is scheduled) and the process ends (line 33).
CustomerLeaves ==
  /\ phase = "run"
  /\ \E ev \in Earliest(queue) :
       /\ ev.type = "Timeout" /\ ev.proc # 0
       /\ LET c == ev.proc
          IN  /\ now' = ev.time
              /\ users' = DoRelease(users, c)
              /\ leave' = [leave EXCEPT ![c] = ev.time]
              /\ pc' = [pc EXCEPT ![c] = "done"]
              /\ queue' = (queue \ {ev}) \cup
                   {Event(ev.time, NORMAL, eid, "Release", c, ""),
                    Event(ev.time, NORMAL, eid + 1, "Process", c, "")}
              /\ eid' = eid + 2
       /\ UNCHANGED << cfg, stream, i, arrive, put_queue, usage_since,
                       wait_times, service_times, busy_time, total_time,
                       utilization, phase, error, requested, granted, run_no,
                       first_run >>

\* A release event: its callback _trigger_put grants the head of put_queue
\* if a cashier is free.
ReleaseDone ==
  /\ phase = "run"
  /\ \E ev \in Earliest(queue) :
       /\ ev.type = "Release"
       /\ LET g == Grants(put_queue, users)
          IN  /\ now' = ev.time
              /\ IF g = {}
                 THEN /\ queue' = queue \ {ev}
                      /\ UNCHANGED << users, put_queue, usage_since, granted, eid >>
                 ELSE \E h \in g :
                      /\ put_queue' = Remove(put_queue, h)
                      /\ users' = Append(users, h)
                      /\ usage_since' = [usage_since EXCEPT ![h] = ev.time]
                      /\ granted' = Append(granted, h)
                      /\ queue' = (queue \ {ev})
                                    \cup {Event(ev.time, NORMAL, eid, "Request", h, "")}
                      /\ eid' = eid + 1
       /\ UNCHANGED << cfg, stream, i, arrive, leave, pc, wait_times, service_times,
                       busy_time, total_time, utilization, phase, error,
                       requested, run_no, first_run >>

\* A process's own event: nothing waits for it.  A failed process's event
\* re-raises its exception out of env.run() (line 59).
ProcessEnds ==
  /\ phase = "run"
  /\ \E ev \in Earliest(queue) :
       /\ ev.type = "Process"
       /\ now' = ev.time
       /\ queue' = queue \ {ev}
       /\ IF ev.exc # ""
          THEN phase' = "failed" /\ error' = ev.exc
          ELSE UNCHANGED << phase, error >>
       /\ UNCHANGED << cfg, stream, eid, pc, i, arrive, leave, users, put_queue,
                       usage_since, wait_times, service_times, busy_time,
                       total_time, utilization, requested, granted, run_no,
                       first_run >>

-----------------------------------------------------------------------------
(* run_simulation after env.run() returned (lines 64-67).                  *)

\* (busy_time[0] / (total_time * CASHIERS)) * 100, as a fraction.
Utilization(busy, total, cashiers) ==
  [num |-> busy * 100, den |-> total * cashiers]

\* env.run() returns once the queue is empty; statistics.mean raises on an
\* empty list and the division on a zero denominator.
Results ==
  /\ phase = "run"
  /\ queue = {}
  /\ IF wait_times = << >>
     THEN /\ phase' = "failed" /\ error' = "StatisticsError"
          /\ UNCHANGED << total_time, utilization >>
     ELSE IF now * cfg.cashiers = 0
     THEN /\ phase' = "failed" /\ error' = "ZeroDivisionError"
          /\ total_time' = now
          /\ UNCHANGED utilization
     ELSE /\ phase' = "done"
          /\ total_time' = now
          /\ utilization' = Utilization(busy_time, now, cfg.cashiers)
          /\ UNCHANGED error
  /\ UNCHANGED << cfg, stream, now, queue, eid, pc, i, arrive, leave, users,
                  put_queue, usage_since, wait_times, service_times, busy_time,
                  requested, granted, run_no, first_run >>

Next ==
  \/ SetupStart
  \/ SetupResume
  \/ CustomerArrives
  \/ CustomerServed
  \/ CustomerLeaves
  \/ ReleaseDone
  \/ ProcessEnds
  \/ Results

Spec == Init /\ [][Next]_vars

\* env.run() keeps calling env.step() while an event is queued, and
\* run_simulation goes on to the results when it returns.
FairSpec == Spec /\ WF_vars(Next)

\* run_simulation() called a second time: the generator is seeded again
\* (line 51), so the stream is the same, and the environment, the lists and
\* the counter are new (lines 52-58).
Rerun ==
  /\ phase = "done"
  /\ run_no = 1
  /\ run_no' = 2
  /\ first_run' = [wait_times |-> wait_times, total_time |-> total_time]
  /\ now' = 0
  /\ queue' = {Event(0, URGENT, 0, "Initialize", 0, "")}
  /\ eid' = 1
  /\ pc' = [p \in Procs |-> IF p = 0 THEN "start" ELSE "none"]
  /\ i' = 0
  /\ arrive' = [c \in Customers |-> 0]
  /\ leave' = [c \in Customers |-> 0]
  /\ users' = << >>
  /\ put_queue' = << >>
  /\ usage_since' = [c \in Customers |-> 0]
  /\ wait_times' = << >>
  /\ service_times' = << >>
  /\ busy_time' = 0
  /\ total_time' = 0
  /\ utilization' = [num |-> 0, den |-> 0]
  /\ phase' = "run"
  /\ error' = ""
  /\ requested' = << >>
  /\ granted' = << >>
  /\ UNCHANGED << cfg, stream >>

NextTwice ==
  \/ Next
  \/ Rerun

\* Two runs with the same parameters and the same seed, one after the other.
SpecTwice == Init /\ [][NextTwice]_vars

\* Any parameters, valid or not: run_simulation() checks none of them.
InitConfig ==
  /\ cfg \in [customers : 0 .. MaxCustomers,
              interval : {0 - INTERVAL, 0, INTERVAL},
              service_time : {SERVICE_TIME, << SERVICE_TIME[2], SERVICE_TIME[1] >>,
                              << 0 - SERVICE_TIME[1], SERVICE_TIME[2] >>},
              cashiers : 0 .. CASHIERS]
  /\ stream = NoSamples
  /\ run_no = 1
  /\ first_run = NoResults
  /\ Fresh

SpecConfig == InitConfig /\ [][Next]_vars

-----------------------------------------------------------------------------
(* Properties.                                                             *)

\* The customers that were granted a cashier and have not released it.
Holders == {c \in Customers : InSeq(granted, c) /\ pc[c] \in {"request", "service"}}

\* C1 (capacity invariant): in every reachable state the number of customers
\* granted a cashier and not yet released, which is the length of bank.users,
\* is at least 0 and at most the capacity.
C1_CapacityInvariant ==
  /\ Cardinality(Holders) = Len(users)
  /\ 0 <= Cardinality(Holders)
  /\ Cardinality(Holders) <= cfg.cashiers

\* Every cashier is held while another customer waits in put_queue.
C1_Witness ==
  /\ Len(users) = cfg.cashiers
  /\ Cardinality(Holders) = cfg.cashiers
  /\ put_queue # << >>

\* C2 (FIFO fairness): requests are granted in the order they were made: the
\* k-th grant goes to the k-th requester, so of two waiting customers the one
\* enqueued earlier is never granted later than the other.
C2_FifoFairness ==
  /\ Len(granted) <= Len(requested)
  /\ \A k \in 1 .. Len(granted) : granted[k] = requested[k]

\* Two customers wait in put_queue at once, and a later grant has served
\* the first of them.
C2_Witness ==
  /\ Len(put_queue) >= 1
  /\ Len(requested) = 3
  /\ Len(granted) = 2
  /\ usage_since[granted[2]] > arrive[granted[2]]
  /\ arrive[put_queue[1]] < usage_since[granted[2]]

\* C3 (wait correctness): the value a customer appends to wait_times when it
\* is resumed with its request is the time its request was granted minus the
\* time it arrived.
C3_WaitCorrectness ==
  [][\A c \in Customers :
       (pc[c] = "request" /\ pc'[c] # "request")
         => wait_times' = Append(wait_times, usage_since[c] - arrive[c])]_vars

\* A customer that arrived after time 0 has recorded a positive wait.
C3_Witness ==
  \E c \in Customers :
    /\ pc[c] = "service"
    /\ arrive[c] > 0
    /\ usage_since[c] > arrive[c]
    /\ wait_times # << >>
    /\ wait_times[Len(wait_times)] = usage_since[c] - arrive[c]

\* C4 (utilization bound): once the run has ended, the final clock value is
\* positive and 0 <= busy_time <= total_time * capacity, so the utilization
\* percentage lies between 0 and 100.
C4_UtilizationBound ==
  phase = "done" =>
    /\ total_time > 0
    /\ 0 <= busy_time
    /\ busy_time <= total_time * cfg.cashiers
    /\ utilization.den > 0
    /\ 0 <= utilization.num
    /\ utilization.num <= 100 * utilization.den

\* A finished run whose cashiers were busy all the time: utilization is 100%.
C4_Witness ==
  /\ phase = "done"
  /\ Len(service_times) >= 2
  /\ busy_time = total_time * cfg.cashiers
  /\ utilization.num = 100 * utilization.den

\* C5 (no starvation, completion): under a valid configuration the run ends
\* with an empty event queue and as many recorded waits as customers, and
\* every customer that requests a cashier is eventually granted one.
C5_Completion ==
  /\ <>[](phase = "done" /\ queue = {} /\ Len(wait_times) = cfg.customers)
  /\ \A c \in Customers : InSeq(requested, c) ~> InSeq(granted, c)

\* A finished run in which a customer had to wait for a cashier.
C5_Witness ==
  /\ phase = "done"
  /\ queue = {}
  /\ Len(wait_times) = cfg.customers
  /\ \E k \in 1 .. Len(wait_times) : wait_times[k] > 0

\* C6 (monotonic clock): no dispatch moves the clock backward, and no event
\* is scheduled before the time of the dispatch that schedules it (no
\* timeout has a negative delay).
C6_MonotonicClock ==
  [][/\ now' >= now
     /\ \A e \in queue' \ queue : e.time >= now']_vars

\* The clock has advanced and holds events for now and for later.
C6_Witness ==
  /\ now > 0
  /\ \E e \in queue : e.time = now
  /\ \E e \in queue : e.time > now /\ e.type = "Timeout" /\ e.proc # 0

\* C7 (determinism): the event loop never has a choice of which event to
\* dispatch, and a second run with the same parameters and the same stream
\* records the same waits, step for step, and ends at the same total time.
C7_Determinism ==
  /\ Cardinality(Earliest(queue)) <= 1
  /\ run_no = 2 =>
       /\ Len(wait_times) <= Len(first_run.wait_times)
       /\ \A k \in 1 .. Len(wait_times) : wait_times[k] = first_run.wait_times[k]
  /\ (run_no = 2 /\ phase = "done") =>
       /\ wait_times = first_run.wait_times
       /\ total_time = first_run.total_time

\* The second run has ended, after several events tied at one instant.
C7_Witness ==
  /\ run_no = 2
  /\ phase = "done"
  /\ Len(wait_times) = 3
  /\ wait_times[3] > 0
  /\ arrive[2] = arrive[3]

\* The service timeout of customer c, while it is being served.
ServedUntil(c) ==
  {e.time : e \in {f \in queue : f.type = "Timeout" /\ f.proc = c}}

\* The inter-arrival delays drawn so far are the first of d.
Delays(d) ==
  \A k \in 1 .. Len(stream.expovariate) :
    k <= Len(d) => Expovariate(cfg.interval, stream.expovariate[k]) = d[k]

\* Every service duration drawn so far is t.
Services(t) ==
  \A k \in 1 .. Len(stream.uniform) :
    Uniform(cfg.service_time[1], cfg.service_time[2], stream.uniform[k]) = t

\* The delay of the generator's timeout after its last spawn.
TrailingDelay == Expovariate(cfg.interval, stream.expovariate[cfg.customers])

\* Capacity 1, two customers arriving at 0 and 2, service duration 5 each.
Scenario8 ==
  /\ cfg.cashiers = 1
  /\ cfg.customers = 2
  /\ Delays(<< 2 >>)
  /\ Services(5)

\* C8 (scenario): with capacity 1 and two customers arriving at 0 and 2 with
\* service duration 5 each, the first waits 0 and is served over [0,5], the
\* second waits 3 and is served over [5,10], the run's total elapsed time is
\* 10 and utilization is exactly 100%.
C8_Scenario ==
  Scenario8 =>
    /\ pc[1] # "none" => arrive[1] = 0
    /\ pc[2] \notin {"none", "start"} => arrive[2] = 2
    /\ Len(wait_times) >= 1 => wait_times[1] = 0
    /\ Len(wait_times) >= 2 => wait_times[2] = 3
    /\ pc[1] = "service" => usage_since[1] = 0 /\ ServedUntil(1) = {5}
    /\ pc[2] = "service" => usage_since[2] = 5 /\ ServedUntil(2) = {10}
    /\ phase = "done" =>
         /\ total_time = 10
         /\ utilization.num = 100 * utilization.den

\* Capacity 1, three customers arriving at 0, 1 and 2, service duration 3 each.
Scenario9 ==
  /\ cfg.cashiers = 1
  /\ cfg.customers = 3
  /\ Delays(<< 1, 1 >>)
  /\ Services(3)

\* C9 as stated (scenario): with capacity 1 and three customers arriving at
\* 0, 1 and 2 with service duration 3 each, the recorded waits are 0, 2 and 4
\* and the run's total elapsed time is 8.
C9_ScenarioAsStated ==
  (Scenario9 /\ phase = "done") =>
    /\ wait_times = << 0, 2, 4 >>
    /\ total_time = 8

Max(a, b) == IF a >= b THEN a ELSE b

\* C9 as amended (scenario): the recorded waits are 0, 2 and 4, the third
\* customer is served over [6,9], and the run's total elapsed time is the
\* later of 9 and the end of the generator's timeout after the third spawn
\* (2 plus that delay), never 8.
C9_ScenarioAmended ==
  Scenario9 =>
    /\ \A k \in 1 .. Len(wait_times) : wait_times[k] = << 0, 2, 4 >>[k]
    /\ pc[3] = "service" => usage_since[3] = 6 /\ ServedUntil(3) = {9}
    /\ phase = "done" =>
         /\ wait_times = << 0, 2, 4 >>
         /\ total_time =
              Max(9, 2 + TrailingDelay)
         /\ total_time # 8

\* The scenario has run to its end, the last customer leaving at 9.
C9_Witness ==
  /\ Scenario9
  /\ phase = "done"
  /\ Len(wait_times) = 3
  /\ total_time = 9

\* A configuration the specification calls invalid.
InvalidConfiguration ==
  \/ cfg.cashiers <= 0
  \/ cfg.customers <= 0
  \/ cfg.interval <= 0
  \/ cfg.service_time[1] > cfg.service_time[2]
  \/ cfg.service_time[1] <= 0

\* C10 (invalid configuration rejected): under an invalid configuration the
\* run is rejected before any event executes: no customer process is
\* spawned, the clock does not advance, no wait or service is recorded and
\* the run does not complete.
C10_InvalidRejected ==
  InvalidConfiguration =>
    /\ \A c \in Customers : pc[c] = "none"
    /\ now = 0
    /\ wait_times = << >>
    /\ service_times = << >>
    /\ phase # "done"

\* The release events of customer c that a step schedules.
ReleasesScheduled(c) ==
  {e \in queue' \ queue : e.type = "Release" /\ e.proc = c}

\* Customer c leaves its with block in this step, normally or by an exception.
Exits(c) == pc[c] \in {"request", "service"} /\ pc'[c] \in {"done", "failed"}

\* C11 (no capacity leak): a customer that holds a cashier releases it when
\* it leaves its service block, on the normal and on the exceptional path,
\* exactly once and at no other step; so a customer that has left holds
\* nothing, and when the run ends the held count is 0 and the wait queue is
\* empty.
C11_NoCapacityLeak ==
  /\ [](phase = "done" => users = << >> /\ put_queue = << >>)
  /\ [](\A c \in Customers : pc[c] \in {"done", "failed"} => ~InSeq(users, c))
  /\ [][\A c \in Customers :
          /\ Exits(c) =>
               /\ InSeq(users, c)
               /\ ~InSeq(users', c)
               /\ Len(users') = Len(users) - 1
               /\ Cardinality(ReleasesScheduled(c)) = 1
          /\ ~Exits(c) =>
               /\ ReleasesScheduled(c) = {}
               /\ InSeq(users, c) => InSeq(users', c)]_vars

\* The run has ended after every cashier was held with a customer waiting:
\* all three customers have left and nothing is held.
C11_Witness ==
  /\ phase = "done"
  /\ users = << >>
  /\ put_queue = << >>
  /\ \A c \in Customers : pc[c] = "done" /\ leave[c] > usage_since[c]
  /\ \E c \in Customers : usage_since[c] > arrive[c]

\* The sum of the first k inter-arrival delays drawn.
RECURSIVE SumDelays(_)
SumDelays(k) ==
  IF k <= 0 THEN 0
  ELSE SumDelays(k - 1) + Expovariate(cfg.interval, stream.expovariate[k])

\* Customer c has been spawned; it has run its first step and set `arrive`.
Spawned(c) == pc[c] # "none"
Arrived(c) == pc[c] \notin {"none", "start"}

\* C12 (arrival generator ordering): the generator suspends for a freshly
\* drawn delay before each spawn, so the k-th customer arrives at the sum of
\* the first k drawn delays (the first one not before the first delay is
\* over), and the generator stops once exactly count customers are spawned.
C12_DelayBeforeSpawn ==
  /\ \A c \in Customers :
       Arrived(c) => c <= Len(stream.expovariate) /\ arrive[c] = SumDelays(c)
  /\ pc[0] = "done" => \A c \in Customers : Spawned(c) <=> c <= cfg.customers

\* The release events of the current instant that are still to be dispatched.
ReleasePending == {e \in queue : e.type = "Release" /\ e.time = now}

\* Customer h, which was waiting in put_queue, is granted a cashier.
GrantedFromQueue(h) == InSeq(put_queue, h) /\ InSeq(users', h)

\* C13 as stated (release hand-off): a release with a non-empty wait queue
\* removes the head of the queue and grants it the unit within the same step,
\* so the held count is unchanged and still equal to capacity and the
\* waiter's grant time is the release time; with an empty queue the held
\* count decreases by exactly 1.
C13_HandOffInOneStep ==
  [][\A c \in Customers :
       Exits(c) =>
         IF put_queue # << >>
         THEN /\ Len(users') = Len(users)
              /\ Len(users') = cfg.cashiers
              /\ put_queue' = Tail(put_queue)
              /\ InSeq(users', Head(put_queue))
              /\ usage_since'[Head(put_queue)] = leave'[c]
         ELSE Len(users') = Len(users) - 1]_vars

\* C13 as amended (release hand-off): a release decreases the held count by
\* exactly 1 and leaves the wait queue as it is, whether or not a customer
\* waits, and schedules a release event for the current instant; the head of
\* a non-empty queue is removed and granted the unit by a later dispatch of
\* the same simulated instant (the release event's, or a request made at that
\* instant), before the clock advances, so the waiter's grant time equals the
\* releaser's release time.
C13_HandOffAtSameInstant ==
  [][/\ \A c \in Customers :
          Exits(c) =>
            /\ Len(users') = Len(users) - 1
            /\ put_queue' = put_queue
            /\ \E e \in queue' \ queue :
                 e.type = "Release" /\ e.proc = c /\ e.time = now'
     /\ \A h \in Customers :
          GrantedFromQueue(h) =>
            /\ h = Head(put_queue)
            /\ ~InSeq(put_queue', h)
            /\ \A w \in Customers \ {h} : InSeq(put_queue, w) => InSeq(put_queue', w)
            /\ Len(users') = Len(users) + 1
            /\ now' = now
            /\ \E c \in Customers :
                 /\ pc[c] \in {"done", "failed"}
                 /\ usage_since'[h] = leave[c]
     /\ now' > now /\ put_queue # << >> => Len(users) = cfg.cashiers]_vars

\* Every cashier is held again after a hand-off: a customer that had to wait
\* holds a cashier since the instant another customer left.
C13_Witness ==
  /\ Len(users) = cfg.cashiers
  /\ \E h, c \in Customers :
       /\ h # c
       /\ InSeq(users, h)
       /\ pc[c] = "done"
       /\ usage_since[h] = leave[c]
       /\ usage_since[h] > arrive[h]

\* The sequence s holds no element twice.
NoDuplicates(s) == \A j, k \in 1 .. Len(s) : s[j] = s[k] => j = k

\* C14 (holder/waiter disjointness): in every reachable state no customer is
\* both in the wait queue and holding a cashier, no customer is in the wait
\* queue more than once, and the held count is the number of customers that
\* were granted a cashier and have not released it.
C14_HolderWaiterDisjoint ==
  /\ \A c \in Customers : ~(InSeq(put_queue, c) /\ InSeq(users, c))
  /\ NoDuplicates(put_queue)
  /\ NoDuplicates(users)
  /\ Len(users) = Cardinality(Holders)
  /\ \A c \in Customers : InSeq(users, c) <=> c \in Holders

\* A customer waits while every cashier is held, after another customer has
\* been granted a cashier and has released it.
C14_Witness ==
  /\ put_queue # << >>
  /\ Len(users) = cfg.cashiers
  /\ \E c \in Customers : pc[c] = "done" /\ InSeq(granted, c)

\* The statistics the customers record.
Statistics == << wait_times, service_times, busy_time >>

\* Customer c is resumed with its request granted and records its statistics.
Served(c) == pc[c] = "request" /\ pc'[c] \in {"service", "failed"}

\* C15 (statistics frame): wait_times, service_times and busy_time change
\* only in the step of a customer being served, which appends one wait and
\* one service duration and adds that duration to busy_time; the generator's
\* steps, a customer's arrival step and its release step leave all three
\* unchanged, and nothing changes them once the run has ended.
C15_StatisticsFrame ==
  [][/\ Statistics' # Statistics =>
          /\ phase = "run"
          /\ \E c \in Customers :
               /\ Served(c)
               /\ wait_times' = Append(wait_times, now' - arrive[c])
               /\ Len(service_times') = Len(service_times) + 1
               /\ service_times =
                    SubSeq(service_times', 1, Len(service_times))
               /\ busy_time' =
                    busy_time + service_times'[Len(service_times')]
     /\ pc'[0] # pc[0] \/ i' # i => Statistics' = Statistics
     /\ \A c \in Customers :
          /\ pc[c] = "start" /\ pc'[c] = "request" => Statistics' = Statistics
          /\ pc[c] = "service" /\ pc'[c] = "done" => Statistics' = Statistics
     /\ phase # "run" => Statistics' = Statistics]_vars

\* The run has ended with the statistics of three customers recorded, after
\* the generator's steps and every customer's arrival and release.
C15_Witness ==
  /\ phase = "done"
  /\ pc[0] = "done"
  /\ Len(wait_times) = 3
  /\ Len(service_times) = 3
  /\ busy_time > 0
  /\ \A c \in Customers : pc[c] = "done"

\* The events this step dispatches (none when the queue is empty).
Dispatched == queue \ queue'

Requests(c) == pc[c] = "start" /\ pc'[c] = "request"

\* C17 as stated (work conservation): in every state between two dispatches
\* a non-empty wait queue means that every cashier is held, and a customer
\* that requests while the held count is below capacity is granted at once
\* and records a wait of 0.
C17_NoWaitWhileFree ==
  /\ [](put_queue # << >> => Len(users) = cfg.cashiers)
  /\ [][\A c \in Customers :
          /\ Requests(c) /\ Len(users) < cfg.cashiers =>
               InSeq(users', c) /\ usage_since'[c] = arrive'[c]
          /\ Served(c) /\ usage_since[c] = arrive[c] =>
               wait_times'[Len(wait_times')] = 0]_vars

\* C17 as amended (work conservation): in every state between two dispatches
\* a non-empty wait queue means that every cashier is held or that a release
\* event of the current instant is still to be dispatched, so the clock never
\* advances past a free cashier with a customer waiting; a customer that
\* requests while the held count is below capacity and the wait queue is
\* empty is granted at once and records a wait of 0, and one that requests
\* while the queue is non-empty joins it behind the waiting customers.
C17_NoWaitPastRelease ==
  /\ [](put_queue # << >> /\ Len(users) < cfg.cashiers => ReleasePending # {})
  /\ [][/\ now' > now /\ put_queue # << >> => Len(users) = cfg.cashiers
        /\ \A c \in Customers :
             /\ Requests(c) /\ Len(users) < cfg.cashiers /\ put_queue = << >> =>
                  /\ InSeq(users', c)
                  /\ put_queue' = << >>
                  /\ usage_since'[c] = arrive'[c]
             /\ Requests(c) /\ put_queue # << >> =>
                  /\ ~InSeq(users', c)
                  /\ put_queue'[Len(put_queue')] = c
             /\ Served(c) /\ usage_since[c] = arrive[c] =>
                  wait_times'[Len(wait_times')] = 0]_vars

\* A customer has left while another one waits: a cashier is free and the
\* release event that will hand it to the waiting customer is pending.
C17_Witness ==
  /\ put_queue # << >>
  /\ Len(users) < cfg.cashiers
  /\ ReleasePending # {}
  /\ \E c \in Customers : pc[c] = "done" /\ leave[c] = now
  /\ arrive[Head(put_queue)] < now

\* The time the last customer releases its cashier.
LastRelease ==
  CHOOSE t \in {leave[c] : c \in 1 .. cfg.customers} :
    \A c \in 1 .. cfg.customers : leave[c] <= t

\* The time the timeout the generator issues after the last spawn fires.
LastTimeout == SumDelays(cfg.customers)

\* C18 (total elapsed time): the final clock value used as total_time in the
\* utilization formula is the later of the last customer's release and of the
\* firing of the timeout the generator issues after the last spawn, so it is
\* at least every customer's release time.
C18_TotalElapsedTime ==
  phase = "done" =>
    /\ total_time = Max(LastRelease, LastTimeout)
    /\ \A c \in 1 .. cfg.customers : total_time >= leave[c]
    /\ utilization.den = total_time * cfg.cashiers

\* A finished run whose total elapsed time is strictly later than the last
\* release: the generator's last timeout fired after every customer had left.
C18_Witness ==
  /\ phase = "done"
  /\ cfg.customers = 3
  /\ \A c \in Customers : pc[c] = "done" /\ leave[c] < total_time
  /\ total_time = LastTimeout
  /\ LastRelease > arrive[3]

\* Customer c has recorded its wait and its service duration.
Recorded(c) == pc[c] \in {"service", "done", "failed"}

\* C19 (recorded order): the i-th entry of wait_times and of service_times
\* belongs to the i-th spawned customer: customers request, are granted and
\* record their statistics in the order in which they were spawned, whatever
\* the capacity and the order of the events of one instant.
C19_RecordedOrder ==
  /\ \A k \in 1 .. Len(requested) : requested[k] = k
  /\ \A k \in 1 .. Len(granted) : granted[k] = k
  /\ Len(wait_times) = Len(service_times)
  /\ \A c \in Customers : Recorded(c) <=> c <= Len(wait_times)
  /\ \A k \in 1 .. Len(wait_times) :
       /\ wait_times[k] = usage_since[k] - arrive[k]
       /\ pc[k] = "service" => ServedUntil(k) = {usage_since[k] + service_times[k]}
       /\ pc[k] = "done" => leave[k] = usage_since[k] + service_times[k]

\* Three customers on two cashiers: the third had to wait, and the second
\* left before the first.
C19_Witness ==
  /\ phase = "done"
  /\ cfg.cashiers = 2
  /\ Len(wait_times) = 3
  /\ wait_times[3] > 0
  /\ leave[2] < leave[1]

\* sum(s) of a list of numbers.
RECURSIVE Sum(_)
Sum(s) == IF s = << >> THEN 0 ELSE Head(s) + Sum(Tail(s))

\* The grants of the current instant the granted customers are still to be
\* resumed with.
GrantPending == {e \in queue : e.type = "Request" /\ e.time = now}

\* C20 as stated (statistics consistency): in every reachable state
\* len(wait_times) = len(service_times) = the number of grants made so far,
\* every recorded wait is >= 0 and busy_time is the sum of service_times.
C20_RecordsEqualGrants ==
  /\ Len(wait_times) = Len(service_times)
  /\ Len(wait_times) = Len(granted)
  /\ \A k \in 1 .. Len(wait_times) : wait_times[k] >= 0
  /\ busy_time = Sum(service_times)

\* C20 as amended (statistics consistency): in every reachable state
\* len(wait_times) = len(service_times) = the number of granted customers
\* that have been resumed with their grant, which is the number of grants
\* made so far less the grants of the current instant still to be delivered;
\* every recorded wait is >= 0 and busy_time is the sum of service_times.
C20_RecordsFollowGrants ==
  /\ Len(wait_times) = Len(service_times)
  /\ Len(wait_times) = Cardinality({c \in Customers : Recorded(c)})
  /\ Len(wait_times) = Len(granted) - Cardinality(GrantPending)
  /\ \A e \in GrantPending : InSeq(users, e.proc) /\ pc[e.proc] = "request"
  /\ \A k \in 1 .. Len(wait_times) : wait_times[k] >= 0
  /\ busy_time = Sum(service_times)

\* During the run a customer has been granted a cashier and not yet resumed,
\* and the busy time credited so far exceeds the elapsed time times capacity.
C20_Witness ==
  /\ phase = "run"
  /\ GrantPending # {}
  /\ Len(wait_times) >= 1
  /\ Len(granted) = Len(wait_times) + 1
  /\ busy_time > now * cfg.cashiers

=============================================================================
